---- MODULE Spec2Model ----
(***************************************************************************)
(* State-machine model of the training program of src/models/train.py and  *)
(* of LeelaZeroNet (src/models/tf_net.py): the start-up sequence of the    *)
(* __main__ block, the forward entry point call(), the five phases of      *)
(* train_step(), and the learning-rate scheduler of get_schedule_function. *)
(*                                                                         *)
(* Numbers.  A float is a record [finite, v]: v is an integer (arithmetic  *)
(* is exact), finite = FALSE stands for inf / nan.  A loss tensor recorded *)
(* on the GradientTape is a dual number [val, d]: its value and its        *)
(* derivative with respect to the trainable variables, so that             *)
(* tape.gradient(t) is t.d and the arithmetic of lines 84-90 of tf_net.py  *)
(* carries the derivative along by linearity.  A learning rate is an exact *)
(* rational [num, den] with den > 0.                                       *)
(***************************************************************************)
EXTENDS Integers, Sequences, FiniteSets, TLC

\* ---------------------------------------------------------------- bounds
\* Loss weights given on the command line range over -1 .. MaxWeight.
MaxWeight == 1
\* Number of training steps of one run whose gradients are finite (steps
\* skipped for overflow are not counted: they are bounded by the loss scale).
MaxApplied == 2
\* Scheduler inputs: learning rates in -MaxLr .. MaxLr, reduction period in
\* 1 .. MaxEveryN, reduction factor in 1 .. MaxFactor, epochs 0 .. MaxEpoch.
MaxLr == 3
MaxEveryN == 2
MaxFactor == 3
MaxEpoch == 4

\* ------------------------------------------------------ program constants
\* tf.keras.mixed_precision.LossScaleOptimizer(optimizer) is built with the
\* library defaults: initial_scale = 2^15, dynamic_growth_steps = 2000.
InitialLossScale == 32768
DynamicGrowthSteps == 2000
\* Largest finite value of the float16 of the "mixed_float16" policy.
Fp16Max == 65504

\* ---------------------------------------------------------------- state
VARIABLES
    args,                   \* parsed command line (train.py 22-50)
    global_policy,          \* tf.keras.mixed_precision.global_policy().name
    policy_loss_weight,     \* self.policy_loss_weight
    value_loss_weight,      \* self.value_loss_weight
    moves_left_loss_weight, \* self.moves_left_loss_weight
    trainable_variables,    \* the model parameters (a float)
    optimizer,              \* [kind, loss_scale, counter]
    pc,                     \* position of the program
    outputs,                \* dtype of the tensors last returned by call()
    p_loss, v_loss, ml_loss,\* train_step locals (dual numbers)
    total_loss,             \* train_step local (dual number)
    path,                   \* gradient path taken by the current step
    gradients,              \* train_step local (a float)
    returned,               \* the dict train_step returns
    applied,                \* finite-gradient steps run so far
    sched,                  \* arguments of get_schedule_function
    epoch,                  \* epoch the LearningRateScheduler is at
    lr, prev_lr             \* scheduler(epoch) and scheduler(epoch - 1)

vars == <<args, global_policy, policy_loss_weight, value_loss_weight,
          moves_left_loss_weight, trainable_variables, optimizer, pc, outputs,
          p_loss, v_loss, ml_loss, total_loss, path, gradients, returned,
          applied, sched, epoch, lr, prev_lr>>

netVars == <<policy_loss_weight, value_loss_weight, moves_left_loss_weight>>
stepVars == <<p_loss, v_loss, ml_loss, total_loss, path, gradients, returned>>
schedVars == <<sched, epoch, lr, prev_lr>>

\* ------------------------------------------------------------- numbers
Abs(x) == IF x < 0 THEN -x ELSE x

Float(x) == [finite |-> TRUE, v |-> x]
NonFinite == [finite |-> FALSE, v |-> 0]

Tensor(val, d) == [val |-> val, d |-> d]
ZeroTensor == Tensor(0, 0)

\* scalar * tensor and tensor + tensor, as recorded on the tape
Mul(w, t) == Tensor(w * t.val, w * t.d)
Add(a, b) == Tensor(a.val + b.val, a.d + b.d)

\* The (loss, gradient) pairs a head's loss function can produce on a batch:
\* a perfect fit, and a positive loss sloping either way.  The three values
\* differ so that the three heads of one step can be told apart.
HeadOutcomes == {Tensor(0, 0), Tensor(1, 1), Tensor(2, -1)}

WeightVals == -1 .. MaxWeight

TrainPhases == {"IDLE", "FORWARD", "LOSS_COMPUTED", "GRADIENTS_COMPUTED", "UPDATED"}

NoOptimizer == [kind |-> "none", loss_scale |-> 1, counter |-> 0]
NoReturn == [policy_loss |-> 0, value_loss |-> 0, moves_left_loss |-> 0, loss |-> 0]

\* ------------------------------------------------- LeelaZeroNet.train_step
\* A total that adds the moves-left loss without its weight.
TotalLossUnweightedMovesLeft(wp, wv, wm, p, v, ml) ==
    Add(Add(Mul(wp, p), Mul(wv, v)), ml)

\* total_loss = w_p * p_loss + w_v * v_loss + w_m * ml_loss  (tf_net.py 84-88)
TotalLoss(wp, wv, wm, p, v, ml) == Add(Add(Mul(wp, p), Mul(wv, v)), Mul(wm, ml))

\* self.optimizer.get_scaled_loss(total_loss): loss * loss_scale  (tf_net.py 90)
GetScaledLoss(opt, t) == Mul(opt.loss_scale, t)

\* tape.gradient(t, self.trainable_variables)  (tf_net.py 91, 94).  Under the
\* mixed_float16 policy (fp16) the backward pass runs in float16: a gradient
\* beyond Fp16Max, or an overflow inside the backward pass (inject), comes
\* out non-finite.
TapeGradient(t, fp16, inject) ==
    IF inject \/ (fp16 /\ Abs(t.d) > Fp16Max) THEN NonFinite ELSE Float(t.d)

\* An unscaling that hands the scaled gradients back as they are.
GetUnscaledGradientsKeepsScale(opt, g) == g

\* self.optimizer.get_unscaled_gradients(scaled_gradients): g / loss_scale
\* (tf_net.py 92); inf and nan stay what they are.
GetUnscaledGradients(opt, g) ==
    IF g.finite THEN Float(g.v \div opt.loss_scale) ELSE g

Sign(x) == IF x > 0 THEN 1 ELSE IF x < 0 THEN -1 ELSE 0

\* The inner optimizer's update (Adam or Lion with global_clipnorm): one unit
\* step against the sign of the gradient; a zero gradient moves nothing and
\* a non-finite gradient poisons the variable.
InnerApply(g, tv) ==
    IF g.finite /\ tv.finite THEN Float(tv.v - Sign(g.v)) ELSE NonFinite

\* An apply step without the finiteness check: every gradient is applied.
ApplyGradientsNoSkip(opt, g, tv) ==
    [trainable_variables |-> InnerApply(g, tv), optimizer |-> opt]

\* An apply step that divides the (already unscaled) gradients by the loss
\* scale once more before applying them.
ApplyGradientsUnscalesAgain(opt, g, tv) ==
    IF opt.kind = "LossScaleOptimizer"
    THEN IF g.finite
         THEN [trainable_variables |-> InnerApply(Float(g.v \div opt.loss_scale), tv),
               optimizer |-> [opt EXCEPT !.counter = @ + 1]]
         ELSE [trainable_variables |-> tv,
               optimizer |->
                 [opt EXCEPT !.loss_scale = IF @ \div 2 >= 1 THEN @ \div 2 ELSE 1,
                             !.counter = 0]]
    ELSE [trainable_variables |-> InnerApply(g, tv), optimizer |-> opt]

\* self.optimizer.apply_gradients(zip(gradients, trainable_variables))
\* (tf_net.py 95).  The LossScaleOptimizer applies finite gradients and counts
\* the step, doubling the scale after DynamicGrowthSteps finite steps in a
\* row; on non-finite gradients it skips the update, resets the count and
\* halves the scale, which it keeps at 1 or more.
ApplyGradients(opt, g, tv) ==
    IF opt.kind = "LossScaleOptimizer"
    THEN IF g.finite
         THEN [trainable_variables |-> InnerApply(g, tv),
               optimizer |->
                 IF opt.counter + 1 >= DynamicGrowthSteps
                 THEN [opt EXCEPT !.loss_scale = 2 * @, !.counter = 0]
                 ELSE [opt EXCEPT !.counter = @ + 1]]
         ELSE [trainable_variables |-> tv,
               optimizer |->
                 [opt EXCEPT !.loss_scale = IF @ \div 2 >= 1 THEN @ \div 2 ELSE 1,
                             !.counter = 0]]
    ELSE [trainable_variables |-> InnerApply(g, tv), optimizer |-> opt]

\* The dict train_step returns  (tf_net.py 97-102)
StepResult(p, v, ml, total) ==
    [policy_loss |-> p.val, value_loss |-> v.val,
     moves_left_loss |-> ml.val, loss |-> total.val]

\* ------------------------------------------------------------- start-up
ArgSpace ==
    [mixed_precision : BOOLEAN,
     policy_loss_weight : WeightVals,
     value_loss_weight : WeightVals,
     moves_left_loss_weight : WeightVals]

TrainInit ==
    /\ args \in ArgSpace
    /\ global_policy = "float32"
    /\ policy_loss_weight = 0
    /\ value_loss_weight = 0
    /\ moves_left_loss_weight = 0
    /\ trainable_variables = Float(0)
    /\ optimizer = NoOptimizer
    /\ pc = "START"
    /\ outputs = "none"
    /\ p_loss = ZeroTensor
    /\ v_loss = ZeroTensor
    /\ ml_loss = ZeroTensor
    /\ total_loss = ZeroTensor
    /\ path = "none"
    /\ gradients = Float(0)
    /\ returned = NoReturn
    /\ applied = 0

\* if args.mixed_precision: set_global_policy("mixed_float16")  (train.py 51-52)
SetGlobalPolicy ==
    /\ pc = "START"
    /\ global_policy' = IF args.mixed_precision THEN "mixed_float16" ELSE global_policy
    /\ pc' = "POLICY_SET"
    /\ UNCHANGED <<args, netVars, trainable_variables, optimizer, outputs,
                   stepVars, applied, schedVars>>

\* A constructor that takes a weight of 0 for "not given" and stores 1.
ConstructModelDefaultsZero ==
    /\ pc = "POLICY_SET"
    /\ policy_loss_weight' =
         IF args.policy_loss_weight = 0 THEN 1 ELSE args.policy_loss_weight
    /\ value_loss_weight' =
         IF args.value_loss_weight = 0 THEN 1 ELSE args.value_loss_weight
    /\ moves_left_loss_weight' =
         IF args.moves_left_loss_weight = 0 THEN 1 ELSE args.moves_left_loss_weight
    /\ trainable_variables' = Float(0)
    /\ pc' = "CONSTRUCTED"
    /\ UNCHANGED <<args, global_policy, optimizer, outputs, stepVars, applied,
                   schedVars>>

\* model = LeelaZeroNet(...); model.load_weights(...)  (train.py 53-62): the
\* constructor stores the three weights as given (tf_net.py 59-61).
ConstructModel ==
    /\ pc = "POLICY_SET"
    /\ policy_loss_weight' = args.policy_loss_weight
    /\ value_loss_weight' = args.value_loss_weight
    /\ moves_left_loss_weight' = args.moves_left_loss_weight
    /\ trainable_variables' = Float(0)
    /\ pc' = "CONSTRUCTED"
    /\ UNCHANGED <<args, global_policy, optimizer, outputs, stepVars, applied,
                   schedVars>>

\* A start-up that never wraps the optimizer.
BuildOptimizerNeverWraps ==
    /\ pc = "CONSTRUCTED"
    /\ optimizer' = [kind |-> "Adam", loss_scale |-> 1, counter |-> 0]
    /\ pc' = "OPTIMIZER_BUILT"
    /\ UNCHANGED <<args, global_policy, netVars, trainable_variables, outputs,
                   stepVars, applied, schedVars>>

\* optimizer = Adam(...) or Lion(...); wrapped in a LossScaleOptimizer when
\* args.mixed_precision  (train.py 64-78)
BuildOptimizer ==
    /\ pc = "CONSTRUCTED"
    /\ optimizer' =
         IF args.mixed_precision
         THEN [kind |-> "LossScaleOptimizer", loss_scale |-> InitialLossScale,
               counter |-> 0]
         ELSE [kind |-> "Adam", loss_scale |-> 1, counter |-> 0]
    /\ pc' = "OPTIMIZER_BUILT"
    /\ UNCHANGED <<args, global_policy, netVars, trainable_variables, outputs,
                   stepVars, applied, schedVars>>

\* model.compile(optimizer=optimizer); model.fit(...) starts  (train.py 104-136)
CompileAndFit ==
    /\ pc = "OPTIMIZER_BUILT"
    /\ pc' = "IDLE"
    /\ UNCHANGED <<args, global_policy, netVars, trainable_variables, optimizer,
                   outputs, stepVars, applied, schedVars>>

\* --------------------------------------------------------- entry points
\* A forward evaluation that writes to a variable (a statistic updated in
\* the forward pass).
CallWritesVariables ==
    /\ pc = "IDLE"
    /\ outputs' = "float32"
    /\ trainable_variables' = InnerApply(Float(1), trainable_variables)
    /\ UNCHANGED <<args, global_policy, netVars, optimizer, pc, stepVars,
                   applied, schedVars>>

\* LeelaZeroNet.call: the forward evaluation; the three outputs are cast to
\* float32 and nothing is assigned  (tf_net.py 63-75)
Call ==
    /\ pc = "IDLE"
    /\ outputs' = "float32"
    /\ UNCHANGED <<args, global_policy, netVars, trainable_variables, optimizer,
                   pc, stepVars, applied, schedVars>>

\* A step that starts as soon as the previous one has applied its gradients,
\* before it has returned.
StartStepEarly ==
    /\ pc \in {"IDLE", "UPDATED"}
    /\ applied < MaxApplied
    /\ outputs' = "float32"
    /\ pc' = "FORWARD"
    /\ UNCHANGED <<args, global_policy, netVars, trainable_variables, optimizer,
                   stepVars, applied, schedVars>>

\* train_step, IDLE -> FORWARD: the batch is unpacked and the network is run
\* under the tape  (tf_net.py 78-80); fit runs one step after the other.
StartStep ==
    /\ pc = "IDLE"
    /\ applied < MaxApplied
    /\ outputs' = "float32"
    /\ pc' = "FORWARD"
    /\ UNCHANGED <<args, global_policy, netVars, trainable_variables, optimizer,
                   stepVars, applied, schedVars>>

\* FORWARD -> LOSS_COMPUTED: the three losses and their weighted sum
\* (tf_net.py 81-88)
ComputeLoss ==
    /\ pc = "FORWARD"
    /\ \E p \in HeadOutcomes, v \in HeadOutcomes, ml \in HeadOutcomes :
         /\ p_loss' = p
         /\ v_loss' = v
         /\ ml_loss' = ml
         /\ total_loss' = TotalLoss(policy_loss_weight, value_loss_weight,
                                    moves_left_loss_weight, p, v, ml)
    /\ pc' = "LOSS_COMPUTED"
    /\ UNCHANGED <<args, global_policy, netVars, trainable_variables, optimizer,
                   outputs, path, gradients, returned, applied, schedVars>>

\* LOSS_COMPUTED -> GRADIENTS_COMPUTED: the branch on the global policy
\* (tf_net.py 89-94).  A plain optimizer has no get_scaled_loss: the call
\* raises and the run ends.
ComputeGradients ==
    /\ pc = "LOSS_COMPUTED"
    /\ \E inject \in (IF global_policy = "mixed_float16" THEN BOOLEAN ELSE {FALSE}) :
         IF global_policy = "mixed_float16"
         THEN IF optimizer.kind = "LossScaleOptimizer"
              THEN /\ path' = "scaled"
                   /\ gradients' =
                        GetUnscaledGradients(optimizer,
                          TapeGradient(GetScaledLoss(optimizer, total_loss),
                                       TRUE, inject))
                   /\ pc' = "GRADIENTS_COMPUTED"
              ELSE /\ path' = "scaled"
                   /\ gradients' = gradients
                   /\ pc' = "ERROR"
         ELSE /\ path' = "direct"
              /\ gradients' = TapeGradient(total_loss, FALSE, inject)
              /\ pc' = "GRADIENTS_COMPUTED"
    /\ UNCHANGED <<args, global_policy, netVars, trainable_variables, optimizer,
                   outputs, p_loss, v_loss, ml_loss, total_loss, returned,
                   applied, schedVars>>

\* GRADIENTS_COMPUTED -> UPDATED: the gradients are applied and the dict of
\* the four losses is built  (tf_net.py 95-102)
ApplyStep ==
    /\ pc = "GRADIENTS_COMPUTED"
    /\ LET r == ApplyGradients(optimizer, gradients, trainable_variables)
       IN /\ trainable_variables' = r.trainable_variables
          /\ optimizer' = r.optimizer
    /\ returned' = StepResult(p_loss, v_loss, ml_loss, total_loss)
    /\ applied' = IF gradients.finite THEN applied + 1 ELSE applied
    /\ pc' = "UPDATED"
    /\ UNCHANGED <<args, global_policy, netVars, outputs, p_loss, v_loss,
                   ml_loss, total_loss, path, gradients, schedVars>>

\* UPDATED -> IDLE: train_step has returned, fit logs the dict and goes on to
\* the next batch  (train.py 131-136)
FinishStep ==
    /\ pc = "UPDATED"
    /\ p_loss' = ZeroTensor
    /\ v_loss' = ZeroTensor
    /\ ml_loss' = ZeroTensor
    /\ total_loss' = ZeroTensor
    /\ path' = "none"
    /\ gradients' = Float(0)
    /\ returned' = NoReturn
    /\ outputs' = "none"
    /\ pc' = "IDLE"
    /\ UNCHANGED <<args, global_policy, netVars, trainable_variables, optimizer,
                   applied, schedVars>>

\* ------------------------------------------------ get_schedule_function
Rat(n, d) == [num |-> n, den |-> d]
RatLess(a, b) == a.num * b.den < b.num * a.den
RatLeq(a, b) == a.num * b.den <= b.num * a.den
RatEq(a, b) == a.num * b.den = b.num * a.den

\* Python's max(a, b): b when b > a, otherwise a
PyMax(a, b) == IF RatLess(a, b) THEN b ELSE a

\* A scheduler that counts reductions with the remainder, not the quotient.
SchedulerRemainder(s, e) ==
    LET num_reductions == e % s.reduce_lr_every_n_epochs
        reduction_factor == s.reduce_lr_factor ^ num_reductions
    IN PyMax(Rat(s.min_learning_rate, 1), Rat(s.starting_lr, reduction_factor))

\* scheduler(epoch)  (train.py 13-16)
Scheduler(s, e) ==
    LET num_reductions == e \div s.reduce_lr_every_n_epochs
        reduction_factor == s.reduce_lr_factor ^ num_reductions
    IN PyMax(Rat(s.min_learning_rate, 1), Rat(s.starting_lr, reduction_factor))

SchedSpace ==
    [starting_lr : -MaxLr .. MaxLr,
     reduce_lr_every_n_epochs : 1 .. MaxEveryN,
     reduce_lr_factor : 1 .. MaxFactor,
     min_learning_rate : -MaxLr .. MaxLr]

\* The scheduler as the training run starts: not yet called.
SchedIdle(s) ==
    /\ sched = s
    /\ epoch = 0
    /\ lr = Rat(s.starting_lr, 1)
    /\ prev_lr = Rat(s.starting_lr, 1)

\* LearningRateScheduler calls scheduler(epoch) as each epoch begins
\* (train.py 80-87); epoch counts the calls made.
EpochBegin ==
    /\ epoch <= MaxEpoch
    /\ lr' = Scheduler(sched, epoch)
    /\ prev_lr' = IF epoch = 0 THEN Scheduler(sched, epoch) ELSE lr
    /\ epoch' = epoch + 1
    /\ UNCHANGED <<args, global_policy, netVars, trainable_variables, optimizer,
                   pc, outputs, stepVars, applied, sched>>

\* ------------------------------------------------------- specifications
Init ==
    /\ TrainInit
    /\ SchedIdle([starting_lr |-> 1, reduce_lr_every_n_epochs |-> 1,
                  reduce_lr_factor |-> 1, min_learning_rate |-> 1])

Next ==
    \/ SetGlobalPolicy
    \/ ConstructModel
    \/ BuildOptimizer
    \/ CompileAndFit
    \/ Call
    \/ StartStep
    \/ ComputeLoss
    \/ ComputeGradients
    \/ ApplyStep
    \/ FinishStep

Spec == Init /\ [][Next]_vars

\* The scheduler on its own: every argument tuple, epoch after epoch.
InitSchedule ==
    /\ TrainInit
    /\ args = [mixed_precision |-> FALSE, policy_loss_weight |-> 1,
               value_loss_weight |-> 1, moves_left_loss_weight |-> 1]
    /\ \E s \in SchedSpace : SchedIdle(s)

NextSchedule == EpochBegin

SpecSchedule == InitSchedule /\ [][NextSchedule]_vars

\* ======================================================== properties

\* The loss weights of the command line are all non-negative.
ValidWeights ==
    /\ args.policy_loss_weight >= 0
    /\ args.value_loss_weight >= 0
    /\ args.moves_left_loss_weight >= 0

InStep == pc \in {"FORWARD", "LOSS_COMPUTED", "GRADIENTS_COMPUTED", "UPDATED"}

\* A step in reduced-precision mode whose unscaled gradients are non-finite,
\* about to reach apply_gradients.
Overflow ==
    /\ pc = "GRADIENTS_COMPUTED"
    /\ global_policy = "mixed_float16"
    /\ ~gradients.finite

\* C1 as stated: on an overflow step in reduced-precision mode the variables
\* stay as they were, the loss scale becomes strictly smaller, and the step
\* goes on to UPDATED (the run does not end).  Stated for runs whose loss
\* weights are all >= 0, so that a violation owes nothing to the weights.
C1_ScaleAlwaysLowered ==
    [][(Overflow /\ ValidWeights) =>
         /\ trainable_variables' = trainable_variables
         /\ optimizer'.loss_scale < optimizer.loss_scale
         /\ pc' = "UPDATED"]_vars

\* C1 amended: on an overflow step in reduced-precision mode the variables
\* stay as they were, the loss scale does not grow and becomes strictly
\* smaller whenever it is above its minimum of 1, and the step goes on to
\* UPDATED (the run does not end).
C1_OverflowSkipsUpdate ==
    [][Overflow =>
         /\ trainable_variables' = trainable_variables
         /\ optimizer'.loss_scale <= optimizer.loss_scale
         /\ optimizer'.loss_scale >= 1
         /\ (optimizer.loss_scale > 1 =>
               optimizer'.loss_scale < optimizer.loss_scale)
         /\ pc' = "UPDATED"]_vars

\* An overflow step has been through apply_gradients, after earlier steps
\* changed the variables, and the scale is below its initial value.
C1_Witness ==
    /\ pc = "UPDATED"
    /\ global_policy = "mixed_float16"
    /\ ~gradients.finite
    /\ trainable_variables # Float(0)
    /\ optimizer.loss_scale < InitialLossScale

\* C2: in every step the total loss returned is w_p * policy_loss +
\* w_v * value_loss + w_m * moves_left_loss of the component losses returned
\* by the same step, with the weights given at construction, and the weights
\* the network holds are those construction-time values throughout training.
C2_WeightedTotal ==
    /\ pc \in TrainPhases =>
         /\ policy_loss_weight = args.policy_loss_weight
         /\ value_loss_weight = args.value_loss_weight
         /\ moves_left_loss_weight = args.moves_left_loss_weight
    /\ pc = "UPDATED" =>
         returned.loss = args.policy_loss_weight * returned.policy_loss
                         + args.value_loss_weight * returned.value_loss
                         + args.moves_left_loss_weight * returned.moves_left_loss

\* A second step returns with a zero-weighted head whose loss is not zero and
\* a total that is not zero.
C2_Witness ==
    /\ pc = "UPDATED"
    /\ applied >= 2
    /\ args.moves_left_loss_weight = 0
    /\ returned.moves_left_loss > 0
    /\ returned.loss > 0

NextPhase(ph) ==
    CASE ph = "IDLE" -> "FORWARD"
      [] ph = "FORWARD" -> "LOSS_COMPUTED"
      [] ph = "LOSS_COMPUTED" -> "GRADIENTS_COMPUTED"
      [] ph = "GRADIENTS_COMPUTED" -> "UPDATED"
      [] ph = "UPDATED" -> "IDLE"
      [] OTHER -> ph

\* C3: a step moves IDLE -> FORWARD -> LOSS_COMPUTED -> GRADIENTS_COMPUTED ->
\* UPDATED -> IDLE, one phase at a time and in that order: whenever the phase
\* changes it changes to the next one, a step inside its phases never stays
\* where it is while changing state, and FORWARD is entered from IDLE only.
C3_PhaseOrder ==
    [][/\ (pc \in TrainPhases /\ pc' # pc) => pc' = NextPhase(pc)
       /\ InStep => pc' # pc
       /\ pc' = "FORWARD" => pc = "IDLE"]_vars

\* A second step is in FORWARD after the first one applied its gradients.
C3_Witness ==
    /\ pc = "FORWARD"
    /\ applied >= 1

\* C4: the variables change only in the transition GRADIENTS_COMPUTED ->
\* UPDATED of a step: call() and every other phase leave them as they are.
C4_VariablesFrame ==
    [][trainable_variables' # trainable_variables =>
         (pc = "GRADIENTS_COMPUTED" /\ pc' = "UPDATED")]_vars

\* A forward evaluation has run between steps that changed the variables.
C4_Witness ==
    /\ pc = "IDLE"
    /\ outputs = "float32"
    /\ trainable_variables # Float(0)

\* The gradients and the update the full-precision path (tf_net.py 94) yields
\* for the total loss of the current step.
FullPrecisionGradients == TapeGradient(total_loss, FALSE, FALSE)

\* C5: when a step in reduced-precision mode does not overflow, the gradients
\* it hands to the optimizer and the variables after the step are those the
\* full-precision path gives for the same losses and the same variables,
\* whatever the loss scale.
C5_ReducedMatchesFull ==
    [][(pc = "GRADIENTS_COMPUTED" /\ path = "scaled" /\ gradients.finite) =>
         /\ gradients = FullPrecisionGradients
         /\ trainable_variables' =
              InnerApply(FullPrecisionGradients, trainable_variables)]_vars

\* A reduced-precision step has applied finite, non-zero gradients at a loss
\* scale that overflow steps lowered at least twice.
C5_Witness ==
    /\ pc = "UPDATED"
    /\ path = "scaled"
    /\ gradients.finite
    /\ gradients.v # 0
    /\ optimizer.loss_scale * 4 <= InitialLossScale

\* C6: no training step runs on a network built from invalid loss weights
\* (a negative weight): construction rejects them.
C6_InvalidConfigRejected == InStep => ValidWeights

AllWeightsZero ==
    /\ pc \in TrainPhases
    /\ args.policy_loss_weight = 0
    /\ args.value_loss_weight = 0
    /\ args.moves_left_loss_weight = 0

\* C7: with all three weights 0, no transition changes the variables and
\* every step returns a total loss of 0, in either precision mode.
C7_ZeroWeightsNoChange ==
    [][AllWeightsZero =>
         /\ trainable_variables' = trainable_variables
         /\ pc' = "UPDATED" => returned'.loss = 0]_vars

\* With all weights 0 a second step has returned with non-zero component
\* losses after finite gradients.
C7_Witness ==
    /\ AllWeightsZero
    /\ pc = "UPDATED"
    /\ applied >= 2
    /\ gradients.finite
    /\ returned.policy_loss > 0
    /\ returned.value_loss > 0

\* C8: once the gradients are computed, the path taken is the one the
\* precision mode selects (scaled under mixed_float16, direct otherwise), the
\* finite gradients handed to apply_gradients are the weighted sum of the
\* heads' gradients (unscaled), and the "loss" returned is the unscaled total.
C8_UnscaledGradients ==
    /\ pc \in {"GRADIENTS_COMPUTED", "UPDATED"} =>
         /\ path = (IF global_policy = "mixed_float16" THEN "scaled" ELSE "direct")
         /\ gradients.finite =>
              gradients.v = policy_loss_weight * p_loss.d
                            + value_loss_weight * v_loss.d
                            + moves_left_loss_weight * ml_loss.d
    /\ pc = "UPDATED" => returned.loss = total_loss.val

\* A step on the scaled path has returned with finite non-zero gradients and a
\* non-zero total.
C8_Witness ==
    /\ pc = "UPDATED"
    /\ path = "scaled"
    /\ gradients.finite
    /\ gradients.v # 0
    /\ returned.loss # 0

\* C9: the scaled path is taken only with the loss-scaling wrapper as the
\* optimizer, with the wrapper it is the path taken, and no step fails for
\* want of get_scaled_loss.
C9_PathMatchesOptimizer ==
    /\ pc # "ERROR"
    /\ path = "scaled" => optimizer.kind = "LossScaleOptimizer"
    /\ (optimizer.kind = "LossScaleOptimizer"
          /\ pc \in {"GRADIENTS_COMPUTED", "UPDATED"}) => path = "scaled"
    /\ (optimizer.kind = "Adam"
          /\ pc \in {"GRADIENTS_COMPUTED", "UPDATED"}) => path = "direct"

\* Gradients have been computed on the scaled path with the wrapper.
C9_Witness ==
    /\ pc = "GRADIENTS_COMPUTED"
    /\ path = "scaled"
    /\ optimizer.kind = "LossScaleOptimizer"

\* The value the claim gives for the epoch of the last call, epoch - 1.
ScheduleValueOk ==
    LET e == epoch - 1
        k == e \div sched.reduce_lr_every_n_epochs
        f == sched.reduce_lr_factor ^ k
    IN \* lr >= min_learning_rate and lr >= starting_lr / f ...
       /\ sched.min_learning_rate * lr.den <= lr.num
       /\ sched.starting_lr * lr.den <= lr.num * f
       \* ... and lr is one of the two
       /\ \/ lr.num = sched.min_learning_rate * lr.den
          \/ lr.num * f = sched.starting_lr * lr.den

\* C10 as stated: for epoch >= 0, reduce_lr_every_n_epochs >= 1 and
\* reduce_lr_factor >= 1 the scheduler yields max(min_learning_rate,
\* starting_lr / reduce_lr_factor^(epoch div reduce_lr_every_n_epochs)),
\* which is never below min_learning_rate and never above the value of the
\* epoch before.
C10_NeverIncreases ==
    epoch >= 1 => (ScheduleValueOk /\ RatLeq(lr, prev_lr))

\* C10 amended: the same value and the same lower bound for every
\* starting_lr, and no increase from one epoch to the next when
\* starting_lr >= 0.
C10_Schedule ==
    epoch >= 1 =>
        /\ ScheduleValueOk
        /\ sched.starting_lr >= 0 => RatLeq(lr, prev_lr)

\* The rate has dropped from one epoch to the next and is still above
\* min_learning_rate.
C10_Witness ==
    /\ epoch >= 2
    /\ sched.starting_lr > 0
    /\ RatLess(lr, prev_lr)
    /\ RatLess(Rat(sched.min_learning_rate, 1), lr)
====
